---- MODULE Spec2Model ----
(***************************************************************************)
(* A model of liftoff-cli (src/liftoff-cli/main.cpp): the telemetry        *)
(* conditioning pipeline, the altitude/velocity reconciliation loop, the   *)
(* two simulation threads with their completion latch and plot windows,    *)
(* and the force-driven dynamics step of the test rocket.                  *)
(*                                                                         *)
(* The program is modelled by five specifications over one set of          *)
(* variables; each specification moves only its own group of variables:    *)
(*   SpecThreads    the two Calc threads, the latch, plot_data and Draw    *)
(*   SpecReconcile  the while(true) re-scan and adjust_altitude            *)
(*   SpecSetup      parse_telem and setup_flight_profile                   *)
(*   SpecDynamics   the numeric loop body of run_test_rocket::Calc         *)
(*   SpecReplay     the replay loop and adjust_velocity                    *)
(*                                                                         *)
(* Doubles are modelled by integers (SI units, time step 1 s); NaN is a    *)
(* distinguished value with the IEEE rules (arithmetic propagates it, every *)
(* ordered comparison with it is false).                                   *)
(***************************************************************************)
EXTENDS Integers, Sequences, FiniteSets, TLC

(***************************************************************************)
(* Bounds of the model.                                                    *)
(***************************************************************************)
\* Grid points of the conditioned profile: stands for
\* total_steps = max_time / time_step = 500 (main.cpp:460-461).
total_steps == 3

(***************************************************************************)
(* Program constants.                                                      *)
(***************************************************************************)
\* to_ticks(400) with TICKS_PER_SEC = 1 (main.cpp:715, main.cpp:29).
sim_duration_ticks == 400

\* The NaN sentinel of the time series (std::isnan, main.cpp:528, 775, 822).
NaN == -999999999

IsNaN(x) == x = NaN

\* IEEE arithmetic on doubles that may be NaN: NaN propagates.
NAdd(a, b) == IF IsNaN(a) \/ IsNaN(b) THEN NaN ELSE a + b

NSub(a, b) == IF IsNaN(a) \/ IsNaN(b) THEN NaN ELSE a - b

NMul(a, b) == IF IsNaN(a) \/ IsNaN(b) THEN NaN ELSE a * b

\* IEEE ordered comparisons: false as soon as an operand is NaN.
NLt(a, b) == ~IsNaN(a) /\ ~IsNaN(b) /\ a < b

NGe(a, b) == ~IsNaN(a) /\ ~IsNaN(b) /\ a >= b

\* double time_step = 1 (main.cpp:451).
time_step == 1

VARIABLES
    \* ---- SpecThreads ----
    rtp_pc,          \* position of run_telemetry_profile::Calc
    rtp_i,           \* its loop index i
    rtr_pc,          \* position of run_test_rocket::Calc
    rtr_i,           \* its loop index i
    rtr_no_prop,     \* body.get_prop_mass() <= 0 has been observed
    rtr_has_read,    \* the dynamics thread has called get_vx / get_vy
    latch_released,  \* c11_binary_latch of run_telemetry_profile
    profile_vx,      \* number of steps for which put_vx has run
    profile_vy,      \* number of steps for which put_vy has run
    plot_data,       \* per simulation: [rows, filled] of its mglData
    awake_pending,   \* per simulation: an update_wnd callback is queued
    draw_seen,       \* per simulation: what the last Draw read
    \* ---- SpecReconcile ----
    rec_pc,              \* "scan": in the while(true) loop; "done": after it
    fitted_velocity,     \* fitted.get_velocity(t) on the step grid
    fitted_altitude,     \* fitted.get_altitude(t) on the step grid
    orig_altitude,       \* orig.get_altitude(t): the copy of main.cpp:458
    last_corrected_time, \* double last_corrected_time
    corrected_times,     \* history: the times of the corrections, in order
    passes,              \* history: passes of the while(true) loop so far
    \* ---- SpecSetup ----
    setup_pc,        \* position in setup_flight_profile
    file_good,       \* data_file.good() of parse_telem
    telem,           \* the records of the telemetry file, one per second
    raw,             \* raw: the samples parse_telem has put
    v_fitted,        \* fitted.get_velocities(), by sample position
    alt_fitted,      \* fitted.get_altitudes(), by sample position
    events,          \* std::vector<double> events (times)
    fit_writes,      \* history: the put_altitude calls made from a fit
    bad_access,      \* history: an iterator was moved or read past the end
    \* ---- SpecDynamics ----
    dyn_pc,          \* position of the dynamics loop of run_test_rocket::Calc
    dyn_i,           \* its loop index i
    profile,         \* rtp.get_profile(): the targets the replay has written
    nan_throttle,    \* what engine::set_throttle makes of a NaN request
    mass,            \* the mass field of the body (set_mass)
    prop_mass,       \* rocket::prop_mass
    engines,         \* the throttle of each engine, per mille
    forces,          \* body.get_forces(): weight, normal, drag, thrust
    d_mot,           \* body.get_d_mot(): p, v, a, j
    drain_trace,     \* history: prop_mass before and after each drain of a step
    sep_log,         \* history: time and get_mass() around each separation
    last_request,    \* history: the throttle computation of the last step
    last_step,       \* history: how the last step started and what it used
    protocol,        \* history: calls of pre_compute, compute_forces,
                     \* compute_motion and post_compute so far
    \* ---- SpecReplay ----
    rp_pc,           \* position of the replay loop of run_telemetry_profile::Calc
    rp_i,            \* its loop index i
    rp_p_y,          \* p.get_y() of the velocity-driven body
    rp_v,            \* v of the velocity-driven body
    pidf,            \* pidf_controller: setpoint and last state
    adjust_call      \* history: the last call of adjust_velocity

threadVars == <<rtp_pc, rtp_i, rtr_pc, rtr_i, rtr_no_prop, rtr_has_read,
                latch_released, profile_vx, profile_vy, plot_data,
                awake_pending, draw_seen>>

recVars == <<rec_pc, fitted_velocity, fitted_altitude, orig_altitude,
             last_corrected_time, corrected_times, passes>>

setupVars == <<setup_pc, file_good, telem, raw, v_fitted, alt_fitted, events,
               fit_writes, bad_access>>

dynVars == <<dyn_pc, dyn_i, profile, nan_throttle, mass, prop_mass, engines,
             forces, d_mot, drain_trace, sep_log, last_request, last_step,
             protocol>>

replayVars == <<rp_pc, rp_i, rp_p_y, rp_v, pidf, adjust_call>>

nonThreadVars == <<recVars, setupVars, dynVars, replayVars>>

nonRecVars == <<threadVars, setupVars, dynVars, replayVars>>

nonSetupVars == <<threadVars, recVars, dynVars, replayVars>>

nonDynVars == <<threadVars, recVars, setupVars, replayVars>>

nonReplayVars == <<threadVars, recVars, setupVars, dynVars>>

vars == <<threadVars, recVars, setupVars, dynVars, replayVars>>

\* The variables of a specification that is not running keep these values.
IdleThreads ==
    /\ rtp_pc = "idle"
    /\ rtp_i = 0
    /\ rtr_pc = "idle"
    /\ rtr_i = 0
    /\ rtr_no_prop = FALSE
    /\ rtr_has_read = FALSE
    /\ latch_released = FALSE
    /\ profile_vx = 0
    /\ profile_vy = 0
    /\ plot_data = <<>>
    /\ awake_pending = <<>>
    /\ draw_seen = <<>>

IdleReconcile ==
    /\ rec_pc = "idle"
    /\ fitted_velocity = <<>>
    /\ fitted_altitude = <<>>
    /\ orig_altitude = <<>>
    /\ last_corrected_time = 0
    /\ corrected_times = <<>>
    /\ passes = 0

IdleDynamics ==
    /\ dyn_pc = "idle"
    /\ dyn_i = 0
    /\ profile = <<>>
    /\ nan_throttle = 0
    /\ mass = 0
    /\ prop_mass = 0
    /\ engines = <<>>
    /\ forces = <<>>
    /\ d_mot = <<>>
    /\ drain_trace = <<>>
    /\ sep_log = <<>>
    /\ last_request = <<>>
    /\ last_step = <<>>
    /\ protocol = <<>>

IdleReplay ==
    /\ rp_pc = "idle"
    /\ rp_i = 0
    /\ rp_p_y = 0
    /\ rp_v = <<>>
    /\ pidf = <<>>
    /\ adjust_call = <<>>

IdleSetup ==
    /\ setup_pc = "idle"
    /\ file_good = FALSE
    /\ telem = <<>>
    /\ raw = <<>>
    /\ v_fitted = <<>>
    /\ alt_fitted = <<>>
    /\ events = <<>>
    /\ fit_writes = {}
    /\ bad_access = FALSE

(***************************************************************************)
(* SpecThreads: the two simulation threads and the window thread.          *)
(***************************************************************************)
Sims == {"rtp", "rtr"}

\* The recorded quantities of one plot row: position, velocity,
\* acceleration, jerk (the four Put pairs of main.cpp:550-560, 839-849).
RowQuantities == 4

\* plot_data is modelled by its last row: whether a row exists, and how
\* many of its quantities Calc has written (all earlier rows are complete,
\* each having been filled before the next Insert).
\* plot_data.Create(1, 4, 2): one zero-filled row that no step has written.
PlotCreate == [rows |-> 1, filled |-> 0]

\* plot_data.Insert('x', i): a new zero-filled row after the existing ones.
PlotInsert(pd) == [rows |-> 1, filled |-> 0]

\* One pair of plot_data.Put calls: the next quantity of row i.
PlotPut(pd) == [pd EXCEPT !.filled = pd.filled + 1]

\* What Draw reads of plot_data (SubData(-1, k, j) over all rows): whether
\* the rows present are completely written.
DrawRead(pd) == [rows |-> pd.rows, filled |-> pd.filled]

InitThreads ==
    /\ IdleDynamics
    /\ IdleReplay
    /\ rtp_pc = "setup"
    /\ rtp_i = 0
    /\ rtr_pc = "wait"
    /\ rtr_i = 0
    /\ rtr_no_prop = FALSE
    /\ rtr_has_read = FALSE
    /\ latch_released = FALSE
    /\ profile_vx = 0
    /\ profile_vy = 0
    /\ plot_data = [s \in Sims |-> [rows |-> 0, filled |-> 0]]
    /\ awake_pending = [s \in Sims |-> FALSE]
    /\ draw_seen = [s \in Sims |-> [rows |-> 0, filled |-> 0]]
    /\ IdleReconcile
    /\ IdleSetup

\* Where the replay thread goes after step i: the for loop of main.cpp:519
\* runs again while i + 1 < total_steps, and latch.release() (main.cpp:581)
\* follows the loop.
RtpAfterStepEarly(i) == "release"
RtpAfterStep(i) == IF i + 1 < total_steps THEN "compute" ELSE "release"

\* main.cpp:438-518: set-up, conditioning, plot_data.Create.
RtpCalc_Setup ==
    /\ rtp_pc = "setup"
    /\ rtp_pc' = IF total_steps > 0 THEN "compute" ELSE "release"
    /\ plot_data' = [plot_data EXCEPT !["rtp"] = PlotCreate]
    /\ UNCHANGED <<nonThreadVars, rtp_i, rtr_pc, rtr_i, rtr_no_prop, rtr_has_read,
                   latch_released, profile_vx, profile_vy, awake_pending,
                   draw_seen>>

\* main.cpp:520-548: the step's computation, then Insert for i # 0.
RtpCalc_Compute ==
    /\ rtp_pc = "compute"
    /\ rtp_pc' = "put"
    /\ plot_data' = [plot_data EXCEPT !["rtp"] =
                        IF rtp_i # 0 THEN PlotInsert(@) ELSE @]
    /\ UNCHANGED <<nonThreadVars, rtp_i, rtr_pc, rtr_i, rtr_no_prop, rtr_has_read,
                   latch_released, profile_vx, profile_vy, awake_pending,
                   draw_seen>>

\* main.cpp:550-560: the Put calls of one quantity.
RtpCalc_Put ==
    /\ rtp_pc = "put"
    /\ plot_data' = [plot_data EXCEPT !["rtp"] = PlotPut(@)]
    /\ rtp_pc' = IF plot_data["rtp"].filled + 1 = RowQuantities
                 THEN "awake" ELSE "put"
    /\ UNCHANGED <<nonThreadVars, rtp_i, rtr_pc, rtr_i, rtr_no_prop, rtr_has_read,
                   latch_released, profile_vx, profile_vy, awake_pending,
                   draw_seen>>

\* main.cpp:563-566: Check(); Fl::awake(update_wnd, wnd_inst).
RtpCalc_Awake ==
    /\ rtp_pc = "awake"
    /\ rtp_pc' = "put_vx"
    /\ awake_pending' = [awake_pending EXCEPT !["rtp"] = TRUE]
    /\ UNCHANGED <<nonThreadVars, rtp_i, rtr_pc, rtr_i, rtr_no_prop, rtr_has_read,
                   latch_released, profile_vx, profile_vy, plot_data,
                   draw_seen>>

\* main.cpp:569: profile.put_vx(cur_time_s, v.get_x()).
RtpCalc_PutVx ==
    /\ rtp_pc = "put_vx"
    /\ rtp_pc' = "put_vy"
    /\ profile_vx' = rtp_i + 1
    /\ UNCHANGED <<nonThreadVars, rtp_i, rtr_pc, rtr_i, rtr_no_prop, rtr_has_read,
                   latch_released, profile_vy, plot_data, awake_pending,
                   draw_seen>>

\* main.cpp:570, 519: profile.put_vy(cur_time_s, v.get_y()); ++i.
RtpCalc_PutVy ==
    /\ rtp_pc = "put_vy"
    /\ profile_vy' = rtp_i + 1
    /\ rtp_i' = rtp_i + 1
    /\ rtp_pc' = RtpAfterStep(rtp_i)
    /\ UNCHANGED <<nonThreadVars, rtr_pc, rtr_i, rtr_no_prop, rtr_has_read, latch_released,
                   profile_vx, plot_data, awake_pending, draw_seen>>

\* c11_binary_latch::release: the gate opens and stays open.
LatchRelease == TRUE

\* c11_binary_latch::wait returns only once release() has been called.
LatchWaitReturns == latch_released

\* main.cpp:581: latch.release().
RtpCalc_Release ==
    /\ rtp_pc = "release"
    /\ rtp_pc' = "done"
    /\ latch_released' = LatchRelease
    /\ UNCHANGED <<nonThreadVars, rtp_i, rtr_pc, rtr_i, rtr_no_prop, rtr_has_read,
                   profile_vx, profile_vy, plot_data, awake_pending,
                   draw_seen>>

\* main.cpp:674-714: rtp.get_latch().wait(), rocket set-up, Create.
RtrCalc_Wait ==
    /\ rtr_pc = "wait"
    /\ LatchWaitReturns
    /\ rtr_pc' = "compute"
    /\ plot_data' = [plot_data EXCEPT !["rtr"] = PlotCreate]
    /\ UNCHANGED <<nonThreadVars, rtp_pc, rtp_i, rtr_i, rtr_no_prop, rtr_has_read,
                   latch_released, profile_vx, profile_vy, awake_pending,
                   draw_seen>>

\* Where the dynamics thread goes after step i (main.cpp:716).
RtrAfterStep(i) == IF i + 1 < sim_duration_ticks THEN "compute" ELSE "done"

\* main.cpp:760-765: prop_rem <= 0: report and continue with the next i.
\* Propellant never grows, so once observed the branch is taken for good.
RtrCalc_NoPropellant ==
    /\ rtr_pc = "compute"
    /\ rtr_no_prop' = TRUE
    /\ rtr_i' = rtr_i + 1
    /\ rtr_pc' = RtrAfterStep(rtr_i)
    /\ UNCHANGED <<nonThreadVars, rtp_pc, rtp_i, rtr_has_read, latch_released, profile_vx,
                   profile_vy, plot_data, awake_pending, draw_seen>>

\* main.cpp:767-769: profile.get_vx(cur_time_s), profile.get_vy(cur_time_s),
\* then the rest of the step up to Insert (main.cpp:771-837).
RtrCalc_Read ==
    /\ rtr_pc = "compute"
    /\ ~rtr_no_prop
    /\ rtr_has_read' = TRUE
    /\ rtr_pc' = "put"
    /\ plot_data' = [plot_data EXCEPT !["rtr"] =
                        IF rtr_i # 0 THEN PlotInsert(@) ELSE @]
    /\ UNCHANGED <<nonThreadVars, rtp_pc, rtp_i, rtr_i, rtr_no_prop, latch_released,
                   profile_vx, profile_vy, awake_pending, draw_seen>>

\* main.cpp:839-849: the Put calls of one quantity.
RtrCalc_Put ==
    /\ rtr_pc = "put"
    /\ plot_data' = [plot_data EXCEPT !["rtr"] = PlotPut(@)]
    /\ rtr_pc' = IF plot_data["rtr"].filled + 1 = RowQuantities
                 THEN "awake" ELSE "put"
    /\ UNCHANGED <<nonThreadVars, rtp_pc, rtp_i, rtr_i, rtr_no_prop, rtr_has_read,
                   latch_released, profile_vx, profile_vy, awake_pending,
                   draw_seen>>

\* main.cpp:852-855, 716: Check(); Fl::awake(update_wnd, wnd_inst); ++i.
RtrCalc_Awake ==
    /\ rtr_pc = "awake"
    /\ awake_pending' = [awake_pending EXCEPT !["rtr"] = TRUE]
    /\ rtr_i' = rtr_i + 1
    /\ rtr_pc' = RtrAfterStep(rtr_i)
    /\ UNCHANGED <<nonThreadVars, rtp_pc, rtp_i, rtr_no_prop, rtr_has_read, latch_released,
                   profile_vx, profile_vy, plot_data, draw_seen>>

\* The window thread runs the queued update_wnd (main.cpp:92-95), whose
\* Update() calls Draw (main.cpp:392-436, 628-672): Draw reads plot_data as
\* it is at that moment, with no lock held against Calc.
Draw(s) ==
    /\ awake_pending[s]
    /\ awake_pending' = [awake_pending EXCEPT ![s] = FALSE]
    /\ draw_seen' = [draw_seen EXCEPT ![s] = DrawRead(plot_data[s])]
    /\ UNCHANGED <<nonThreadVars, rtp_pc, rtp_i, rtr_pc, rtr_i, rtr_no_prop, rtr_has_read,
                   latch_released, profile_vx, profile_vy, plot_data>>

DrawRtp == Draw("rtp")

DrawRtr == Draw("rtr")

NextThreads ==
    \/ RtpCalc_Setup
    \/ RtpCalc_Compute
    \/ RtpCalc_Put
    \/ RtpCalc_Awake
    \/ RtpCalc_PutVx
    \/ RtpCalc_PutVy
    \/ RtpCalc_Release
    \/ RtrCalc_Wait
    \/ RtrCalc_NoPropellant
    \/ RtrCalc_Read
    \/ RtrCalc_Put
    \/ RtrCalc_Awake
    \/ DrawRtp
    \/ DrawRtr

SpecThreads == InitThreads /\ [][NextThreads]_vars

(***************************************************************************)
(* C1: the dynamics simulation performs no read of the decomposed velocity *)
(* profile (get_vx / get_vy) until the replay simulation has executed      *)
(* put_vx / put_vy for its final step: once the dynamics thread is past    *)
(* latch.wait(), or has read, the latch has been released and both series  *)
(* hold all total_steps steps.                                             *)
(***************************************************************************)
C1_ReadsAfterLastWrite ==
    (rtr_pc # "wait" \/ rtr_has_read) =>
        /\ latch_released
        /\ rtp_pc = "done"
        /\ profile_vx = total_steps
        /\ profile_vy = total_steps

\* The dynamics thread has read the profile (and the replay wrote it all).
C1_Witness ==
    /\ rtr_has_read
    /\ rtr_i >= 1
    /\ profile_vy = total_steps

(***************************************************************************)
(* C2: Draw never observes a row that Calc has inserted but not yet        *)
(* completely written: every row present in what Draw read holds all four  *)
(* recorded quantities.                                                    *)
(***************************************************************************)
C2_DrawSeesOnlyCommittedRows ==
    \A s \in Sims :
        draw_seen[s].rows > 0 => draw_seen[s].filled = RowQuantities

(***************************************************************************)
(* SpecReconcile: the final conditioning step of                           *)
(* run_telemetry_profile::Calc (main.cpp:463-503) with adjust_altitude     *)
(* (main.cpp:280-318).  A series is a function on the step grid, NaN where *)
(* the profile holds no sample.                                            *)
(***************************************************************************)
Grid == 0 .. total_steps - 1

\* Largest fitted velocity (m/s) and altitude (m) of the model's profiles.
MaxVelocity == 1

MaxAltitude == 2

\* A series holds samples from liftoff (t = 0) to the last telemetry
\* sample, hi; get_velocity / get_altitude are NaN for later times
\* (telemetry_flight_profile, spec section 4.1).
SeriesUpTo(hi, max) ==
    { [t \in Grid |-> IF t <= hi THEN g[t] ELSE NaN] :
        g \in [0 .. hi -> 0 .. max] }

\* main.cpp:294: Euler's method, v_integral += v * dt.
IntegrateStepForgetful(v_integral, v) == NMul(v, time_step)
IntegrateStep(v_integral, v) == NAdd(v_integral, NMul(v, time_step))

\* adjust_altitude, main.cpp:287-317, from loop index i on; last_t of the
\* source is the previous t (0 before the first iteration).
RECURSIVE AdjustFrom(_, _, _, _, _, _, _)
AdjustFrom(i, alt, orig, vel, break_even, last_alt, v_integral) ==
    IF ~(i < total_steps)
    THEN alt
    ELSE LET t == i * time_step
             last_t == IF i = 0 THEN 0 ELSE (i - 1) * time_step
             integral == IntegrateStep(v_integral, vel[t])
         IN  IF t < break_even
             THEN AdjustFrom(i + 1, [alt EXCEPT ![t] = integral], orig, vel,
                             break_even, integral, integral)
             ELSE LET target_error == NSub(orig[t], orig[last_t])
                      target_alt == NAdd(last_alt, target_error)
                  IN  IF NGe(target_alt, alt[t])
                      THEN alt
                      ELSE AdjustFrom(i + 1, [alt EXCEPT ![t] = target_alt],
                                      orig, vel, break_even, target_alt,
                                      integral)

\* adjust_altitude(orig, fitted, break_even, max_time): the new altitudes.
adjust_altitude(orig, alt, vel, break_even) ==
    AdjustFrom(0, alt, orig, vel, break_even, 0, 0)

\* main.cpp:473-476, 488: v < target_v with target_v = target_error / dt.
\* At i = 0, dt is 0 and the quotient is +inf, -inf or NaN: v < target_v
\* then holds exactly when target_error > 0 (v is finite).
VelocityInsufficient(v, target_error, dt) ==
    IF dt = 0
    THEN ~IsNaN(v) /\ NLt(0, target_error)
    ELSE ~IsNaN(target_error) /\ NLt(v, target_error \div dt)

\* main.cpp:488: the condition under which step t is corrected.
NeedsCorrectionAgain(v, target_error, dt, lct, t) ==
    VelocityInsufficient(v, target_error, dt)
NeedsCorrection(v, target_error, dt, lct, t) ==
    VelocityInsufficient(v, target_error, dt) /\ lct < t

\* main.cpp:467-498: one scan of the for loop from index i; the first t
\* that needs a correction, or -1 when the scan completes (valid).
RECURSIVE ScanFrom(_, _, _, _)
ScanFrom(i, alt, vel, lct) ==
    IF ~(i < total_steps)
    THEN -1
    ELSE LET t == i * time_step
             last_t == IF i = 0 THEN 0 ELSE (i - 1) * time_step
             last_alt == IF i = 0 THEN 0 ELSE alt[last_t]
             target_error == NSub(alt[t], last_alt)
         IN  IF NeedsCorrection(vel[t], target_error, t - last_t, lct, t)
             THEN t
             ELSE ScanFrom(i + 1, alt, vel, lct)

\* The fitted profiles the loop may start from: velocity and altitude
\* come from the same telemetry samples, so they end at the same time.
FittedProfiles ==
    UNION { SeriesUpTo(hi, MaxVelocity) \X SeriesUpTo(hi, MaxAltitude) :
            hi \in -1 .. total_steps - 1 }

InitReconcile ==
    /\ IdleThreads
    /\ IdleSetup
    /\ IdleDynamics
    /\ IdleReplay
    /\ rec_pc = "scan"
    /\ \E pr \in FittedProfiles :
         /\ fitted_velocity = pr[1]
         /\ fitted_altitude = pr[2]
    /\ orig_altitude = fitted_altitude
    /\ last_corrected_time = 0
    /\ corrected_times = <<>>
    /\ passes = 0

\* A pass that finds a step to correct (main.cpp:488-494): the loop runs
\* again.  The guard on passes only keeps the history counter finite.
Reconcile_Correct ==
    /\ rec_pc = "scan"
    /\ passes <= total_steps + 1
    /\ LET t == ScanFrom(0, fitted_altitude, fitted_velocity,
                         last_corrected_time)
       IN  /\ t # -1
           /\ last_corrected_time' = t
           /\ fitted_altitude' = adjust_altitude(orig_altitude,
                                    fitted_altitude, fitted_velocity, t)
           /\ corrected_times' = Append(corrected_times, t)
    /\ passes' = passes + 1
    /\ UNCHANGED <<nonRecVars, rec_pc, fitted_velocity, orig_altitude>>

\* A pass that completes with valid still true (main.cpp:500-502).
Reconcile_Valid ==
    /\ rec_pc = "scan"
    /\ ScanFrom(0, fitted_altitude, fitted_velocity,
                last_corrected_time) = -1
    /\ rec_pc' = "done"
    /\ passes' = passes + 1
    /\ UNCHANGED <<nonRecVars, fitted_velocity, fitted_altitude,
                   orig_altitude, last_corrected_time, corrected_times>>

NextReconcile ==
    \/ Reconcile_Correct
    \/ Reconcile_Valid

SpecReconcile == InitReconcile /\ [][NextReconcile]_vars

(***************************************************************************)
(* C3: the reconciliation loop cannot loop forever: each correction is     *)
(* taken at a time strictly later than every previously corrected time,    *)
(* so there are at most total_steps corrections and at most                *)
(* total_steps + 1 passes, and while the loop has not exited a pass is     *)
(* always possible.                                                        *)
(***************************************************************************)
C3_ReconcileBounded ==
    /\ \A j \in 1 .. Len(corrected_times) :
         /\ corrected_times[j] \in Grid
         /\ \A k \in 1 .. j - 1 : corrected_times[k] < corrected_times[j]
    /\ Len(corrected_times) <= total_steps
    /\ passes <= total_steps + 1
    /\ rec_pc = "scan" => ENABLED NextReconcile

\* The loop has exited after two corrections.
C3_Witness ==
    /\ rec_pc = "done"
    /\ Len(corrected_times) >= 2

\* The Euler integral of the fitted velocity up to and including t.
RECURSIVE EulerIntegral(_, _)
EulerIntegral(vel, t) ==
    IF t < 0 THEN 0 ELSE NAdd(EulerIntegral(vel, t - 1), NMul(vel[t], time_step))

(***************************************************************************)
(* C4: after the loop terminates having made at least one correction, for  *)
(* every grid time t strictly below the last corrected time the fitted     *)
(* altitude at t equals the Euler integral of the fitted velocity up to t. *)
(***************************************************************************)
C4_FixedPointBelowBreakEven ==
    (rec_pc = "done" /\ Len(corrected_times) >= 1) =>
        \A t \in Grid :
            t < last_corrected_time =>
                fitted_altitude[t] = EulerIntegral(fitted_velocity, t)

\* The loop has exited after a correction that rewrote an altitude below
\* the break-even time to a different value.
C4_Witness ==
    /\ rec_pc = "done"
    /\ Len(corrected_times) >= 1
    /\ \E t \in Grid :
         /\ t < last_corrected_time
         /\ t >= 1
         /\ fitted_altitude[t] # orig_altitude[t]

(***************************************************************************)
(* SpecSetup: parse_telem (main.cpp:104-123) and setup_flight_profile      *)
(* (main.cpp:133-220).  The telemetry holds one record per second from     *)
(* t = 0; the sample at position k (1 .. n) of a std::map has time k - 1,  *)
(* and position n + 1 is the map's end().  The values of the fitted        *)
(* polynomials are left open: each evaluation may give any of FitValues.   *)
(***************************************************************************)
\* Longest telemetry file of the model, in records.
MaxSamples == 6

\* Recorded velocities are 0 .. MaxTelemVelocity.
MaxTelemVelocity == 1

\* What a fitted polynomial may evaluate to (m).
FitValues == {-1, 0, 1}

\* The telemetry files: n records [velocity, altitude]; the altitude
\* rises by climb metres each second.
TelemFiles ==
    UNION { { [k \in 1 .. n |-> [velocity |-> v[k], altitude |-> climb * (k - 1)]] :
                v \in [1 .. n -> 0 .. MaxTelemVelocity], climb \in 0 .. 1 } :
            n \in 0 .. MaxSamples }

\* liftoff::interp_lin(target, source): one sample per key of the source;
\* with a record every second each sample is an original one.
interp_lin(source) == source

\* liftoff::find_event_time(start, series, expect_max): the first position
\* from start on whose neighbours show a local maximum (expect_max) or
\* minimum, or end() when there is none.
find_event_time(start, v, expect_max) ==
    LET n == Len(v)
        turns == { k \in start .. n - 1 :
                     /\ k >= 2
                     /\ IF expect_max
                        THEN v[k - 1] < v[k] /\ v[k + 1] < v[k]
                        ELSE v[k - 1] > v[k] /\ v[k + 1] > v[k] }
    IN  IF turns = {} THEN n + 1
        ELSE CHOOSE k \in turns : \A j \in turns : k <= j

\* liftoff::collect(times, legs, series, events): the sample times of leg l
\* (0, 1, 2): from the previous event (the first sample for leg 0) up to,
\* not including, event l.
collect(n, ev, l) ==
    { t \in 0 .. n - 1 :
        /\ t < ev[l + 1]
        /\ l > 0 => ev[l] <= t }

\* main.cpp:195-197: a negative fitted altitude is clamped to zero.
Clamp(alt) == IF alt < 0 THEN 0 ELSE alt

\* main.cpp:188-202: the leg whose polynomial rewrites the sample at t: the
\* first i with t < events[i]; i = 1 only breaks; -1 when there is none.
RewriteLeg(t, ev) ==
    IF t < ev[1] THEN 0
    ELSE IF t < ev[2] THEN -1
    ELSE IF t < ev[3] THEN 2
    ELSE -1

InitSetup ==
    /\ IdleThreads
    /\ IdleReconcile
    /\ IdleDynamics
    /\ IdleReplay
    /\ setup_pc = "parse"
    /\ file_good \in BOOLEAN
    /\ telem \in TelemFiles
    /\ file_good = FALSE => telem = <<>>
    /\ raw = <<>>
    /\ v_fitted = <<>>
    /\ alt_fitted = <<>>
    /\ events = <<>>
    /\ fit_writes = {}
    /\ bad_access = FALSE

\* parse_telem, main.cpp:104-123: a file that is not good() is reported and
\* raw stays empty; otherwise every record is put.
parse_telem ==
    /\ setup_pc = "parse"
    /\ raw' = IF ~file_good THEN <<>> ELSE telem
    /\ setup_pc' = "events"
    /\ UNCHANGED <<nonSetupVars, file_good, telem, v_fitted, alt_fitted,
                   events, fit_writes, bad_access>>

\* Velocity series after interp_lin (main.cpp:143).
VelocitiesOf(r) == [k \in 1 .. Len(r) |-> interp_lin(r)[k].velocity]

\* Altitude series after interp_lin (main.cpp:158).
AltitudesOf(r) == [k \in 1 .. Len(r) |-> interp_lin(r)[k].altitude]

\* main.cpp:147-149: the three iterators.
MecoPtr(v) == find_event_time(2, v, TRUE)

Ses1Ptr(v) == find_event_time(MecoPtr(v), v, FALSE)

Seco1Ptr(v) == find_event_time(Ses1Ptr(v), v, TRUE)

\* The accesses of main.cpp:147-153 that have no defined behaviour:
\* ++v_fitted.cbegin() on an empty map, and ->first of an end() iterator.
EventAccessUndefined(v) ==
    \/ Len(v) = 0
    \/ MecoPtr(v) = Len(v) + 1
    \/ Ses1Ptr(v) = Len(v) + 1
    \/ Seco1Ptr(v) = Len(v) + 1

\* main.cpp:142-158 when every iterator read is of a sample that exists.
Setup_FindEvents ==
    /\ setup_pc = "events"
    /\ LET v == VelocitiesOf(raw)
       IN  /\ ~EventAccessUndefined(v)
           /\ v_fitted' = v
           /\ events' = <<MecoPtr(v) - 1, Ses1Ptr(v) - 1, Seco1Ptr(v) - 1>>
    /\ alt_fitted' = AltitudesOf(raw)
    /\ setup_pc' = "rewrite"
    /\ UNCHANGED <<nonSetupVars, file_good, telem, raw, fit_writes,
                   bad_access>>

\* main.cpp:142-158 when an iterator is moved or read past the end: the
\* behaviour is undefined; the run crashes, or goes on with an arbitrary
\* time (here the first sample's or the one after the last) for each event
\* read through an end() iterator.
Setup_FindEventsUndefined ==
    /\ setup_pc = "events"
    /\ LET v == VelocitiesOf(raw)
           n == Len(v)
       IN  /\ EventAccessUndefined(v)
           /\ v_fitted' = v
           /\ \/ /\ setup_pc' = "crashed"
                 /\ events' = <<>>
              \/ /\ setup_pc' = "rewrite"
                 /\ \E g \in [1 .. 3 -> {0, n}] :
                      events' =
                        << IF n > 0 /\ MecoPtr(v) <= n THEN MecoPtr(v) - 1 ELSE g[1],
                           IF n > 0 /\ Ses1Ptr(v) <= n THEN Ses1Ptr(v) - 1 ELSE g[2],
                           IF n > 0 /\ Seco1Ptr(v) <= n THEN Seco1Ptr(v) - 1 ELSE g[3] >>
    /\ alt_fitted' = AltitudesOf(raw)
    /\ bad_access' = TRUE
    /\ UNCHANGED <<nonSetupVars, file_good, telem, raw, fit_writes>>

\* main.cpp:160-203: collect, the fits of the three legs, and the rewrite
\* of the samples of legs 0 and 2 with the clamped polynomial value.
Setup_RewriteLegs ==
    /\ setup_pc = "rewrite"
    /\ LET n == Len(alt_fitted)
           hit == { t \in 0 .. n - 1 : RewriteLeg(t, events) # -1 }
       IN  \E val \in [hit -> FitValues] :
             /\ alt_fitted' = [k \in 1 .. n |->
                                 IF k - 1 \in hit THEN Clamp(val[k - 1])
                                 ELSE alt_fitted[k]]
             /\ fit_writes' = fit_writes \cup
                    { [t |-> t, leg |-> RewriteLeg(t, events),
                       alt |-> Clamp(val[t])] : t \in hit }
    /\ setup_pc' = "middle"
    /\ UNCHANGED <<nonSetupVars, file_good, telem, raw, v_fitted, events,
                   bad_access>>

\* main.cpp:205-219: the forced points of leg 1, its polynomial lip_fit,
\* and fitted.put_altitude(t, lip_fit.val(t)) for every t of times[1].
Setup_RewriteMiddleLeg ==
    /\ setup_pc = "middle"
    /\ LET n == Len(alt_fitted)
           leg1 == collect(n, events, 1)
       IN  \E val \in [leg1 -> FitValues] :
             /\ alt_fitted' = [k \in 1 .. n |->
                                 IF k - 1 \in leg1 THEN val[k - 1]
                                 ELSE alt_fitted[k]]
             /\ fit_writes' = fit_writes \cup
                    { [t |-> t, leg |-> 1, alt |-> val[t]] : t \in leg1 }
    /\ setup_pc' = "done"
    /\ UNCHANGED <<nonSetupVars, file_good, telem, raw, v_fitted, events,
                   bad_access>>

NextSetup ==
    \/ parse_telem
    \/ Setup_FindEvents
    \/ Setup_FindEventsUndefined
    \/ Setup_RewriteLegs
    \/ Setup_RewriteMiddleLeg

SpecSetup == InitSetup /\ [][NextSetup]_vars

(***************************************************************************)
(* C5: every altitude value that setup_flight_profile writes back into the *)
(* fitted profile from a curve fit is >= 0, for all three legs (in the     *)
(* runs whose event detection read only samples that exist).               *)
(***************************************************************************)
C5_FittedAltitudeNonNegative ==
    ~bad_access => \A w \in fit_writes : w.alt >= 0

(***************************************************************************)
(* C7: with a missing or unreadable telemetry file the run proceeds with   *)
(* the empty series without any stage accessing a sample that does not     *)
(* exist (and so without crashing).                                        *)
(***************************************************************************)
C7_MissingFileNoBadAccess ==
    ~file_good => (~bad_access /\ setup_pc # "crashed")

(***************************************************************************)
(* SpecDynamics: the loop of run_test_rocket::Calc (main.cpp:674-865) on   *)
(* the rocket body, after the replay has released the latch and left its   *)
(* velocity profile.                                                       *)
(*                                                                         *)
(* Units: kg, m, m/s, m/s^2 and N, rounded to integers towards zero; the   *)
(* throttle of an engine is held in per mille. Intermediate products are   *)
(* staged so that they stay within 32 bits. engine, rocket.cpp, the body   *)
(* classes, liftoff::vector and velocity_flight_profile are not part of    *)
(* the sources at hand: their operations follow the data model and the     *)
(* sections 4.5 and 4.8 of the specification.                              *)
(***************************************************************************)
\* Largest target speed the replay profile starts from, m/s.
MaxTargetSpeed == 3000

\* Largest growth of a target velocity component, m/s per second.
MaxTargetSlope == 8

\* TIME_STEP = 1.0 / TICKS_PER_SEC (main.cpp:29-30).
TIME_STEP == 1

\* ACCEL_G = 9.80665 (main.cpp:32), in 1e-5 m/s^2.
ACCEL_G == 980665

\* F9_CD * F9_A / 2 = 0.25 * pi * 2.6 * 2.6 / 2 = 2.6546 (main.cpp:36, 39 and
\* calc_drag), in 1e-3 m^2.
F9_DragFactor == 2655

\* main.cpp:43 and main.cpp:46.
MERLIN_MAX_THRUST == 854000

MERLIN_ISP == 282

\* main.cpp:680-684.
stage_1_dry_mass_kg == 25600

stage_1_fuel_mass_kg == 395700

stage_2_dry_mass_kg == 3900

stage_2_fuel_mass_kg == 92670

payload_mass_kg == 6800

\* for (int i = 0; i < 9; ++i) engines.push_back(e) (main.cpp:688).
EngineCount == 9

\* if (cur_time_s == 155) (main.cpp:795).
MecoTime == 155

\* Throttle 1.0 of an engine, in per mille.
FullThrottle == 1000

\* x / y on doubles, for y >= 0: NaN propagates and 0 / 0 is NaN; the result
\* is rounded towards zero. (No x / 0 with x # 0 occurs in the loop.)
NDiv(x, y) ==
    IF IsNaN(x) \/ IsNaN(y) \/ (x = 0 /\ y = 0) THEN NaN
    ELSE IF x >= 0 THEN x \div y
    ELSE -((-x) \div y)

\* (x * y) / z for x, y >= 0 and z > 0, without leaving 32 bits.
MulDiv(x, y, z) == (x \div z) * y + ((x % z) * y) \div z

RECURSIVE SqrtSearch(_, _, _)
SqrtSearch(n, lo, hi) ==
    IF lo >= hi THEN lo
    ELSE LET mid == (lo + hi + 1) \div 2
         IN  IF mid * mid <= n THEN SqrtSearch(n, mid, hi)
             ELSE SqrtSearch(n, lo, mid - 1)

\* std::sqrt (main.cpp:779), rounded down; NaN for NaN.
sqrt(n) == IF IsNaN(n) THEN NaN ELSE SqrtSearch(n, 0, 46340)

\* liftoff::vector, x and y components (z stays 0 throughout).
Vec(x, y) == [x |-> x, y |-> y]

\* liftoff::vector{}: the zero vector.
ZeroVec == Vec(0, 0)

\* liftoff::vector::magnitude.
magnitude(u) == sqrt(NAdd(NMul(u.x, u.x), NMul(u.y, u.y)))

\* ACCEL_G * m in N (main.cpp:708-709, 745).
Weight(m) ==
    (ACCEL_G \div 100000) * m + ((m \div 100) * (ACCEL_G % 100000)) \div 1000

\* calc_rho_earth (drag.cpp:29-45) in g/m^3, tabulated from its formulas at
\* the lower end of each altitude step: below 11 km in steps of 1 km from
\* -3 km, from 11 km to 25 km in steps of 2 km, from 25 km in steps of 5 km.
RhoTroposphere ==
    <<1620, 1480, 1349, 1227, 1113, 1008, 911, 821, 738, 661, 591, 527, 468, 414>>

RhoLowerStratosphere == <<366, 267, 195, 142, 104, 76, 56>>

RhoUpperStratosphere == <<40, 17, 8, 4, 2, 1, 1>>

calc_rho_earth(alt) ==
    IF NGe(alt, 25000) THEN
        IF alt >= 60000 THEN 0
        ELSE RhoUpperStratosphere[(alt - 25000) \div 5000 + 1]
    ELSE IF NGe(alt, 11000) /\ NLt(alt, 25000) THEN
        RhoLowerStratosphere[(alt - 11000) \div 2000 + 1]
    ELSE IF NLt(alt, 11000) THEN
        IF alt < -3000 THEN RhoTroposphere[1]
        ELSE RhoTroposphere[(alt + 3000) \div 1000 + 1]
    ELSE -1000

\* calc_drag(cd, rho, v, a) = cd * rho * v * v / 2 * a (drag.cpp:5-7) with
\* cd = F9_CD and a = F9_A, in N.
calc_drag(rho, v) ==
    IF IsNaN(v) THEN NaN
    ELSE NDiv(((v * v) \div 1000) * rho, 1000) * F9_DragFactor

\* calc_drag_earth (drag.cpp:47-49).
calc_drag_earth(alt, v) == calc_drag(calc_rho_earth(alt), v)

\* velocity_flight_profile::get_vx / get_vy at a time of the step grid: the
\* value the replay has put for it.
get_vx(pr, t) == pr.ax * t

get_vy(pr, t) == pr.vy0 + pr.ay * t

\* The profiles the replay can leave (main.cpp:568-570): a vertical start
\* speed, and a constant growth of each component.
Profiles ==
    [ vy0 : {0, 5, 20, MaxTargetSpeed},
      ax  : {0, 2},
      ay  : {0, MaxTargetSlope} ]

\* rocket::get_mass: the mass of the body plus the remaining propellant.
get_mass(m, prop) == m + prop

\* body::set_mass: stores the mass of the body.
set_mass(m) == m

\* rocket::drain_propellant: the remaining propellant, with its floor at 0.
drain_propellant(prop, drain_mass) ==
    IF prop - drain_mass < 0 THEN 0 ELSE prop - drain_mass

\* engine::set_throttle: the throttle is kept within [0, 1]; a NaN request
\* gives the bound that the implementation's comparisons leave.
set_throttle(t, nan_out) ==
    IF IsNaN(t) THEN nan_out
    ELSE IF t < 0 THEN 0
    ELSE IF t > FullThrottle THEN FullThrottle
    ELSE t

\* engine::get_thrust: throttle * max_thrust, in N.
get_thrust(th) == (th * MERLIN_MAX_THRUST) \div FullThrottle

\* engine::get_prop_flow_rate: thrust / I_sp, the weight of the propellant
\* burnt per second; main.cpp:816 divides it by ACCEL_G for the mass flow
\* thrust / (I_sp * g0).
get_prop_flow_rate(th) == get_thrust(th) \div MERLIN_ISP

\* f / (engines.size() * MERLIN_MAX_THRUST) with f = get_mass() * accel and
\* f_pe = f / engines.size() (main.cpp:780-790): the throttle requested of
\* each engine, per mille, before set_throttle.
ThrottleRequestTwiceDivided(m, accel) ==
    IF IsNaN(accel) THEN NaN
    ELSE MulDiv(m, accel, (EngineCount * EngineCount * MERLIN_MAX_THRUST) \div FullThrottle)

ThrottleRequest(m, accel) ==
    IF IsNaN(accel) THEN NaN
    ELSE MulDiv(m, accel, (EngineCount * MERLIN_MAX_THRUST) \div FullThrottle)

\* main.cpp:815-817: rate = e.get_prop_flow_rate(); mass_flow = rate /
\* ACCEL_G; total_prop_mass = mass_flow * TIME_STEP, in kg.
total_prop_mass_refuel(th) ==
    -(((get_prop_flow_rate(th) * 100000) \div ACCEL_G) * TIME_STEP)

total_prop_mass(th) ==
    ((get_prop_flow_rate(th) * 100000) \div ACCEL_G) * TIME_STEP

\* main.cpp:811-819: thrust_net after the loop over the engines.
RECURSIVE ThrustNet(_)
ThrustNet(es) ==
    IF es = <<>> THEN 0 ELSE get_thrust(Head(es)) + ThrustNet(Tail(es))

\* main.cpp:812-819: prop_mass before the loop and after the drain of each
\* engine, in the order of the loop.
RECURSIVE DrainEach(_, _)
DrainEach(es, prop) ==
    IF es = <<>> THEN <<prop>>
    ELSE <<prop>> \o DrainEach(Tail(es),
                               drain_propellant(prop, total_prop_mass(Head(es))))

\* main.cpp:823-826: (d / accel) * thrust_net, a component of the thrust
\* along the unit vector of the velocity error; 0 / 0 is NaN.
ThrustComponent(d, accel, thrust_net) ==
    IF IsNaN(NDiv(d, accel)) THEN NaN
    ELSE NDiv(d * (thrust_net \div 100), accel) * 100

\* main.cpp:723-741: the normal force from the forces of the previous step.
NormalForce(fs) ==
    LET down(k) == IF k # 2 /\ NLt(fs[k].y, 0) THEN -fs[k].y ELSE 0
    IN  Vec(0, down(1) + down(2) + down(3) + down(4))

\* force_driven_body::compute_forces: the sum of the applied forces.
compute_forces(fs) ==
    Vec(NAdd(NAdd(fs[1].x, fs[2].x), NAdd(fs[3].x, fs[4].x)),
        NAdd(NAdd(fs[1].y, fs[2].y), NAdd(fs[3].y, fs[4].y)))

\* force_driven_body::compute_motion and post_compute: a = F / m with the
\* current mass, Euler steps for v and p, j the difference of a.
compute_motion(net, m, dm) ==
    LET a == Vec(NDiv(net.x, m), NDiv(net.y, m))
        v == Vec(NAdd(dm[2].x, NMul(a.x, TIME_STEP)),
                 NAdd(dm[2].y, NMul(a.y, TIME_STEP)))
        p == Vec(NAdd(dm[1].x, NMul(v.x, TIME_STEP)),
                 NAdd(dm[1].y, NMul(v.y, TIME_STEP)))
        j == Vec(NDiv(NSub(a.x, dm[3].x), TIME_STEP),
                 NDiv(NSub(a.y, dm[3].y), TIME_STEP))
    IN  <<p, v, a, j>>

\* main.cpp:676-715: the rocket as constructed, the initial forces, i = 0.
InitDynamics ==
    /\ IdleThreads
    /\ IdleReconcile
    /\ IdleSetup
    /\ IdleReplay
    /\ dyn_pc = "loop"
    /\ dyn_i = 0
    /\ profile \in Profiles
    /\ nan_throttle \in {0, FullThrottle}
    /\ mass = stage_1_dry_mass_kg + stage_2_dry_mass_kg + payload_mass_kg
              + stage_2_fuel_mass_kg
    /\ prop_mass = stage_1_fuel_mass_kg
    /\ engines = [k \in 1 .. EngineCount |-> 0]
    /\ forces = << Vec(0, -Weight(get_mass(mass, prop_mass))),
                   Vec(0, Weight(get_mass(mass, prop_mass))),
                   ZeroVec, ZeroVec >>
    /\ d_mot = <<ZeroVec, ZeroVec, ZeroVec, ZeroVec>>
    /\ drain_trace = <<>>
    /\ sep_log = <<>>
    /\ last_request = [set |-> FALSE, m |-> 0, accel |-> 0, applied |-> 0]
    /\ last_step = [computed |-> FALSE, p_y |-> 0, contact |-> FALSE,
                    v |-> ZeroVec, m |-> 0]
    /\ protocol = [pre |-> 0, forces |-> 0, motion |-> 0, post |-> 0]

\* main.cpp:717-755: the start of a step, up to the propellant check: the
\* normal force, the velocity reset on the ground, weight and drag.
StepStart ==
    LET p == d_mot[1]
        grounded == NLt(p.y, 0)
        new_n == IF grounded THEN NormalForce(forces) ELSE ZeroVec
        v == IF grounded /\ NLt(d_mot[2].y, 0) THEN ZeroVec ELSE d_mot[2]
        cur_mass == get_mass(mass, prop_mass)
        cur_weight == Vec(0, -Weight(cur_mass))
        v_mag == magnitude(v)
        drag == calc_drag_earth(p.y, v_mag)
        cur_drag == IF v_mag # 0
                    THEN Vec(NDiv(NMul(NSub(0, v.x), drag), v_mag),
                             NDiv(NMul(NSub(0, v.y), drag), v_mag))
                    ELSE ZeroVec
    IN  [v |-> v, n |-> new_n, w |-> cur_weight, drag |-> cur_drag,
         contact |-> grounded /\ NLt(d_mot[2].y, 0)]

\* main.cpp:716: i < sim_duration_ticks.
DynAfterStep(i) == IF i + 1 < sim_duration_ticks THEN "loop" ELSE "done"

\* main.cpp:716-765: a step that finds no propellant left: continue.
Rtr_StepNoPropellant ==
    /\ dyn_pc = "loop"
    /\ prop_mass <= 0
    /\ forces' = <<StepStart.w, StepStart.n, StepStart.drag, forces[4]>>
    /\ d_mot' = [d_mot EXCEPT ![2] = StepStart.v]
    /\ dyn_i' = dyn_i + 1
    /\ dyn_pc' = DynAfterStep(dyn_i)
    /\ last_step' = [computed |-> FALSE, p_y |-> d_mot[1].y,
                     contact |-> StepStart.contact, v |-> StepStart.v,
                     m |-> get_mass(mass, prop_mass)]
    /\ protocol' = [protocol EXCEPT !.pre = @ + 1]
    /\ UNCHANGED <<nonDynVars, profile, nan_throttle, mass, prop_mass, engines,
                   drain_trace, sep_log, last_request>>

\* main.cpp:716-864: a whole step of the loop with propellant left.
Rtr_Step ==
    /\ dyn_pc = "loop"
    /\ prop_mass > 0
    /\ LET cur_time_s == dyn_i * TIME_STEP
           v == StepStart.v
           vx == get_vx(profile, cur_time_s)
           vy == get_vy(profile, cur_time_s)
           tracking == ~IsNaN(vx) /\ ~IsNaN(vy)
           dvx == NSub(vx, v.x)
           dvy == NSub(vy, v.y)
           accel == sqrt(NAdd(NMul(dvx, dvx), NMul(dvy, dvy)))
           request == ThrottleRequest(get_mass(mass, prop_mass), accel)
           throttled == IF tracking
                        THEN [k \in 1 .. EngineCount |->
                                 set_throttle(request, nan_throttle)]
                        ELSE engines
           separating == cur_time_s = MecoTime
           before == get_mass(mass, prop_mass)
           new_mass == IF separating
                       THEN set_mass(before - stage_2_dry_mass_kg
                                     - stage_2_fuel_mass_kg - payload_mass_kg)
                       ELSE mass
           cur_engines == IF cur_time_s > MecoTime
                          THEN [k \in 1 .. EngineCount |-> set_throttle(0, nan_throttle)]
                          ELSE throttled
           thrust_net == ThrustNet(cur_engines)
           drained == DrainEach(cur_engines, prop_mass)
           new_prop == drained[Len(drained)]
           cur_thrust == IF tracking
                         THEN Vec(ThrustComponent(dvx, accel, thrust_net),
                                  ThrustComponent(dvy, accel, thrust_net))
                         ELSE Vec(0, thrust_net)
           new_forces == <<StepStart.w, StepStart.n, StepStart.drag, cur_thrust>>
       IN  /\ engines' = cur_engines
           /\ mass' = new_mass
           /\ prop_mass' = new_prop
           /\ forces' = new_forces
           /\ d_mot' = compute_motion(compute_forces(forces'),
                                      get_mass(mass', prop_mass'),
                                      [d_mot EXCEPT ![2] = v])
           /\ drain_trace' = drained
           /\ sep_log' = IF separating
                         THEN Append(sep_log,
                                     [t |-> cur_time_s, before |-> before,
                                      after |-> get_mass(new_mass, prop_mass)])
                         ELSE sep_log
           /\ last_request' = IF tracking
                              THEN [set |-> TRUE,
                                    m |-> get_mass(mass, prop_mass),
                                    accel |-> accel,
                                    applied |-> throttled[1]]
                              ELSE [last_request EXCEPT !.set = FALSE]
           /\ last_step' = [computed |-> TRUE, p_y |-> d_mot[1].y,
                            contact |-> StepStart.contact, v |-> v,
                            m |-> get_mass(new_mass, new_prop)]
           /\ protocol' = [pre |-> protocol.pre + 1,
                           forces |-> protocol.forces + 1,
                           motion |-> protocol.motion + 1,
                           post |-> protocol.post + 1]
    /\ dyn_i' = dyn_i + 1
    /\ dyn_pc' = DynAfterStep(dyn_i)
    /\ UNCHANGED <<nonDynVars, profile, nan_throttle>>

NextDynamics ==
    \/ Rtr_Step
    \/ Rtr_StepNoPropellant

SpecDynamics == InitDynamics /\ [][NextDynamics]_vars

\* A vector whose components are numbers.
Defined(u) == ~IsNaN(u.x) /\ ~IsNaN(u.y)

(***************************************************************************)
(* C6: no NaN enters physical state: in every step of the dynamics run the *)
(* velocity of the body and every entry of its force list (the thrust      *)
(* vector computed from dvx / accel and dvy / accel included) are defined  *)
(* numbers, whatever the target and the current velocity are.              *)
(***************************************************************************)
C6_PhysicalStateDefined ==
    dyn_pc # "idle" =>
        /\ \A k \in DOMAIN forces : Defined(forces[k])
        /\ Defined(d_mot[2])

C9_SeparationOnceByUpperStageMass ==
    (dyn_pc # "idle" /\ Defined(d_mot[2])) =>
        /\ Len(sep_log) <= 1
        /\ \A k \in DOMAIN sep_log :
             /\ sep_log[k].t = MecoTime
             /\ sep_log[k].before - sep_log[k].after =
                    stage_2_dry_mass_kg + stage_2_fuel_mass_kg + payload_mass_kg
        /\ dyn_pc = "done" => Len(sep_log) = 1

C11_GroundContactCancels ==
    (dyn_pc # "idle" /\ last_step.computed /\ last_step.contact) =>
        /\ last_step.v = ZeroVec
        /\ forces[2] = NormalForce(forces)
        /\ NGe(compute_forces(forces).y, 0)

(***************************************************************************)
(* C13: every tick of the dynamics run calls pre_compute, compute_forces,  *)
(* compute_motion and post_compute exactly once each, a tick that finds    *)
(* the propellant at <= 0 included: it leaves out only the thrust (stated  *)
(* for the runs whose velocity has stayed a number).                       *)
(***************************************************************************)
C13_EveryTickFollowsProtocol ==
    (dyn_pc # "idle" /\ Defined(d_mot[2])) =>
        /\ protocol.pre = dyn_i
        /\ protocol.forces = dyn_i
        /\ protocol.motion = dyn_i
        /\ protocol.post = dyn_i
        /\ dyn_i > 0 => last_step.computed

(***************************************************************************)
(* C14: in every dynamics step the weight in the force list is -g times    *)
(* the mass of that step by which the summed forces are divided: the mass  *)
(* after the stage separation and the propellant drain of the step (stated *)
(* for the runs whose velocity has stayed a number).                       *)
(***************************************************************************)
C14_WeightUsesCurrentMass ==
    (dyn_pc # "idle" /\ last_step.computed /\ Defined(d_mot[2])) =>
        forces[1] = Vec(0, -Weight(last_step.m))

(***************************************************************************)
(* C17: the normal force acts exactly while the altitude is <= 0: a step   *)
(* that starts with position.y > 0 has a zero normal force, and a step     *)
(* that starts with position.y <= 0 (position.y = 0 on the pad at the      *)
(* first step included) has the negative sum of the downward components of *)
(* the other forces (stated for the runs whose velocity has stayed a       *)
(* number).                                                                *)
(***************************************************************************)
C17_NormalForceWhileOnGround ==
    (dyn_pc # "idle" /\ dyn_i > 0 /\ Defined(d_mot[2])) =>
        /\ NLt(0, last_step.p_y) => forces[2] = ZeroVec
        /\ NGe(0, last_step.p_y) => forces[2] = NormalForce(forces)

(***************************************************************************)
(* C16: when the reconciliation loop has terminated, at every grid step    *)
(* t > 0 the fitted velocity is at least the velocity needed to reach the  *)
(* fitted altitude from the previous step, velocity(t) >= (altitude(t) -   *)
(* altitude(t - dt)) / dt, the last corrected time included (stated for    *)
(* the steps whose samples exist).                                         *)
(***************************************************************************)
C16_ProfileConsistentAtExit ==
    rec_pc = "done" =>
        \A t \in Grid \ {0} :
            ( /\ ~IsNaN(fitted_velocity[t])
              /\ ~IsNaN(fitted_altitude[t])
              /\ ~IsNaN(fitted_altitude[t - time_step]) )
            => fitted_velocity[t] * time_step >=
                   fitted_altitude[t] - fitted_altitude[t - time_step]

(***************************************************************************)
(* C18: the legs partition the whole time axis: once setup_flight_profile  *)
(* has run with three events e0 < e1 < e2, every sample time of the fitted *)
(* altitude series, from the first to the last (times >= e2 included), has *)
(* been overwritten exactly once by the polynomial of its one leg (in the  *)
(* runs whose event detection read only samples that exist).               *)
(***************************************************************************)
C18_LegsPartitionAllSamples ==
    (setup_pc = "done" /\ ~bad_access) =>
        \A t \in 0 .. Len(alt_fitted) - 1 :
            Cardinality({ w \in fit_writes : w.t = t }) = 1

(***************************************************************************)
(* SpecReplay: the replay loop of run_telemetry_profile::Calc              *)
(* (main.cpp:516-535, 542-543) with adjust_velocity (main.cpp:235-263).    *)
(*                                                                         *)
(* The horizontal component of a commanded velocity is a square root: it   *)
(* is held by its argument x2, the component being the non-negative root   *)
(* of x2, and NaN when x2 < 0. The downrange position, the sum of such     *)
(* roots, is read by nothing in the loop and is left out.                  *)
(***************************************************************************)
\* Largest fitted speed (m/s) and altitude (m) the replay is given.
MaxReplaySpeed == 3

MaxReplayAltitude == 3

\* fitted.get_velocity(t), fitted.get_altitude(t) (main.cpp:526-527): a value
\* of the conditioned profile, or NaN outside of it. A fitted altitude can
\* be negative (the middle leg of setup_flight_profile is not clamped).
ReplayVelocities == (0 .. MaxReplaySpeed) \cup {NaN}

ReplayAltitudes == (-1 .. MaxReplayAltitude) \cup {NaN}

\* signum (main.cpp:81-83).
signum(x) == IF x > 0 THEN 1 ELSE IF x < 0 THEN -1 ELSE 0

\* std::abs (main.cpp:252).
Abs(x) == IF x < 0 THEN -x ELSE x

\* pidf_controller::compute_error: setpoint - last state.
compute_error(c) == c.setpoint - c.last_state

\* main.cpp:239: the liftoff case of adjust_velocity.
IsLiftoffNever(c) == FALSE

IsLiftoff(c) == c.setpoint = 0

\* main.cpp:252-254: the vertical velocity is limited to the magnitude.
ClampVerticalNone(target_y_velocity, mag_v) == target_y_velocity

ClampVertical(target_y_velocity, mag_v) ==
    IF Abs(target_y_velocity) > mag_v
    THEN signum(target_y_velocity) * mag_v
    ELSE target_y_velocity

\* adjust_velocity (main.cpp:235-263); cur_v is not read.
adjust_velocity(c, cur_v, mag_v) ==
    IF IsLiftoff(c)
    THEN [x2 |-> 0, y |-> mag_v]
    ELSE LET error == compute_error(c)
             target_y_velocity == ClampVertical(error \div time_step, mag_v)
         IN  [x2 |-> mag_v * mag_v - target_y_velocity * target_y_velocity,
              y |-> target_y_velocity]

\* main.cpp:451-452, 516: the body at rest at the origin, pidf{time_step, 0,
\* 0, 0, 0}, i = 0.
InitReplay ==
    /\ IdleThreads
    /\ IdleReconcile
    /\ IdleSetup
    /\ IdleDynamics
    /\ rp_pc = "loop"
    /\ rp_i = 0
    /\ rp_p_y = 0
    /\ rp_v = [x2 |-> 0, y |-> 0]
    /\ pidf = [setpoint |-> 0, last_state |-> 0]
    /\ adjust_call = [called |-> FALSE, c |-> pidf, cur_v |-> rp_v,
                      mag_v |-> 0, out |-> rp_v]

\* main.cpp:519: i < total_steps.
ReplayAfterStep(i) == IF i + 1 < total_steps THEN "loop" ELSE "done"

\* main.cpp:519-543: a step of the replay whose profile values are numbers:
\* the command of adjust_velocity becomes the velocity, then p += v * dt.
Rtp_StepCommand ==
    /\ rp_pc = "loop"
    /\ \E telem_velocity \in ReplayVelocities, telem_alt \in ReplayAltitudes :
         /\ ~IsNaN(telem_velocity) /\ ~IsNaN(telem_alt)
         /\ LET c == [setpoint |-> telem_alt, last_state |-> rp_p_y]
                new_velocity == adjust_velocity(c, rp_v, telem_velocity)
            IN  /\ pidf' = c
                /\ rp_v' = new_velocity
                /\ rp_p_y' = rp_p_y + new_velocity.y * time_step
                /\ adjust_call' = [called |-> TRUE, c |-> c, cur_v |-> rp_v,
                                   mag_v |-> telem_velocity,
                                   out |-> new_velocity]
    /\ rp_i' = rp_i + 1
    /\ rp_pc' = ReplayAfterStep(rp_i)
    /\ UNCHANGED nonReplayVars

\* main.cpp:519-543: a step of the replay with a NaN profile value: the
\* velocity command is skipped and the body keeps its velocity.
Rtp_StepNoCommand ==
    /\ rp_pc = "loop"
    /\ \E telem_velocity \in ReplayVelocities, telem_alt \in ReplayAltitudes :
         IsNaN(telem_velocity) \/ IsNaN(telem_alt)
    /\ pidf' = [pidf EXCEPT !.last_state = rp_p_y]
    /\ rp_p_y' = rp_p_y + rp_v.y * time_step
    /\ adjust_call' = [adjust_call EXCEPT !.called = FALSE]
    /\ rp_i' = rp_i + 1
    /\ rp_pc' = ReplayAfterStep(rp_i)
    /\ UNCHANGED <<nonReplayVars, rp_v>>

NextReplay ==
    \/ Rtp_StepCommand
    \/ Rtp_StepNoCommand

SpecReplay == InitReplay /\ [][NextReplay]_vars

(***************************************************************************)
(* C12: whenever the setpoint of the controller is 0, adjust_velocity      *)
(* returns the purely vertical command (0, |v|, 0), for every velocity     *)
(* magnitude v, every prior state of the controller and every current      *)
(* velocity.                                                               *)
(***************************************************************************)
C12_LiftoffCommandVertical ==
    (rp_pc # "idle" /\ adjust_call.called /\ adjust_call.c.setpoint = 0) =>
        adjust_call.out = [x2 |-> 0, y |-> Abs(adjust_call.mag_v)]

\* A liftoff command given to a body that has moved: its last state and its
\* current velocity are not zero.
C12_Witness ==
    /\ rp_pc # "idle"
    /\ adjust_call.called
    /\ adjust_call.c.setpoint = 0
    /\ adjust_call.c.last_state # 0
    /\ adjust_call.cur_v.x2 > 0
    /\ adjust_call.mag_v > 0
    /\ adjust_call.out = [x2 |-> 0, y |-> adjust_call.mag_v]

(***************************************************************************)
(* C15: for a non-zero setpoint, every velocity magnitude v >= 0 and every *)
(* altitude error, adjust_velocity returns (v_x, v_y) with v_y = error/dt  *)
(* when |error/dt| <= v and v_y = sign(error) * v otherwise, so |v_y| <= v, *)
(* and with v_x >= 0 and v_x^2 + v_y^2 = v^2.                              *)
(***************************************************************************)
C15_CommandKeepsSpeed ==
    (rp_pc # "idle" /\ adjust_call.called /\ adjust_call.c.setpoint # 0) =>
        LET v == adjust_call.mag_v
            error == adjust_call.c.setpoint - adjust_call.c.last_state
            out == adjust_call.out
        IN  /\ Abs(error) <= v * time_step => out.y * time_step = error
            /\ Abs(error) > v * time_step => out.y = signum(error) * v
            /\ Abs(out.y) <= v
            /\ out.x2 >= 0
            /\ out.x2 + out.y * out.y = v * v

\* A command whose altitude error asks for more than the whole speed, and
\* one that leaves speed for the horizontal component.
C15_Witness ==
    /\ rp_pc # "idle"
    /\ adjust_call.called
    /\ adjust_call.c.setpoint # 0
    /\ adjust_call.mag_v > 0
    /\ adjust_call.c.setpoint - adjust_call.c.last_state < -adjust_call.mag_v
    /\ adjust_call.out.y = -adjust_call.mag_v
    /\ adjust_call.cur_v.x2 > 0

====
